---- MODULE Spec2Model ----
(***************************************************************************)
(* Model of PROYECTO_COPIA_DOCUMENTOS.py: one execution of main().  The    *)
(* Drive folder tree and the spreadsheet found at start-up are the          *)
(* environment; the listing service and the spreadsheet service may answer  *)
(* or raise at every call.                                                  *)
(***************************************************************************)
EXTENDS Integers, Sequences, FiniteSets, TLC

VARIABLES
    arbol,            \* Drive: container id -> ordered direct children (read-only)
    entregados,       \* Drive service: per container, sizes of the non-empty pages served
    hoja_snapshot,    \* spreadsheet: the "Snapshot" worksheet [existe, filas]
    hojas_cambios,    \* spreadsheet: the "Cambios ..." worksheets created, in order
    log,              \* records emitted through logging
    pc,               \* position of main()
    excepcion,        \* the call whose exception left main() uncaught ("" if none)
    pila,             \* call stack of obtener_archivos_recursivamente
    datos_actuales,   \* main: result of the walk
    snapshot_actual,  \* main: dict read from the Snapshot sheet
    snapshot_nuevo,   \* main: dict built from datos_actuales
    nuevos_archivos,  \* main: first list returned by comparar_snapshot
    eliminados,       \* main: second list returned by comparar_snapshot
    i_reg             \* registrar_cambios: index of the for loop in progress

vars == <<arbol, entregados, hoja_snapshot, hojas_cambios, log, pc, excepcion,
          pila, datos_actuales, snapshot_actual, snapshot_nuevo,
          nuevos_archivos, eliminados, i_reg>>

-----------------------------------------------------------------------------
(* Bounds of the model *)

\* largest number of items the listing service puts in one page
MaxPage == 2

-----------------------------------------------------------------------------
(* Literals of the program *)

FOLDER_ID == "1mDdBuS9EjjO1iXsq2l99WJgj0KEmZiPt"
RUTA_RAIZ == "Carpeta Principal"
MIME_CARPETA == "application/vnd.google-apps.folder"
MIME_ARCHIVO == "text/plain"
ENCABEZADO == <<"Ubicación", "Nombre", "Tipo", "Propietario", "Fecha de Subida">>
ENCABEZADO_CAMBIOS ==
    <<"Tipo de Cambio", "Ubicación", "Nombre", "Tipo", "Propietario", "Fecha de Subida">>

\* Python's None for page_token; a token is <<offset>>, opaque to the walker
None == <<>>

\* dict.get(k, d)
Get(f, k, d) == IF k \in DOMAIN f THEN f[k] ELSE d

-----------------------------------------------------------------------------
(* Drive fixtures: the folder trees the listing service may hold *)

CREADO_1 == "2024-01-02T03:04:05.000000Z"
CREADO_MALO == "2024-01-02 03:04:05"

Carpeta(id, name) ==
    [id |-> id, name |-> name, mimeType |-> MIME_CARPETA,
     owners |-> <<[emailAddress |-> "ana@x.org"]>>, createdTime |-> CREADO_1]

Archivo(id, name, email) ==
    [id |-> id, name |-> name, mimeType |-> MIME_ARCHIVO,
     owners |-> <<[emailAddress |-> email]>>, createdTime |-> CREADO_1]

\* an item without owners and with a createdTime strptime rejects
ArchivoSinDueno(id, name) ==
    [id |-> id, name |-> name, mimeType |-> MIME_ARCHIVO,
     owners |-> <<>>, createdTime |-> CREADO_MALO]

\* an item that carries neither "owners" nor "createdTime"
ArchivoMinimo(id, name) ==
    [id |-> id, name |-> name, mimeType |-> MIME_ARCHIVO]

\* a.txt and sub/ with b.txt
Arbol1 ==
    (FOLDER_ID :> <<Archivo("f1", "a.txt", "ana@x.org"), Carpeta("c1", "sub")>>)
    @@ ("c1" :> <<Archivo("f2", "b.txt", "ana@x.org")>>)

\* the same folder later: a.txt has another owner, b.txt is gone, c.txt is new
Arbol2 ==
    (FOLDER_ID :> <<ArchivoSinDueno("f1", "a.txt"), Carpeta("c1", "sub"),
                    ArchivoMinimo("f3", "c.txt")>>)
    @@ ("c1" :> <<>>)

\* names that contain the key separator
Arbol3 ==
    (FOLDER_ID :> <<Carpeta("c1", "x_y"), Carpeta("c2", "x")>>)
    @@ ("c1" :> <<Archivo("f1", "z", "ana@x.org")>>)
    @@ ("c2" :> <<Archivo("f2", "y_z", "ana@x.org")>>)

\* nested folders with later siblings at two levels
Arbol4 ==
    (FOLDER_ID :> <<Carpeta("c1", "d"), Archivo("f4", "h", "ana@x.org")>>)
    @@ ("c1" :> <<Carpeta("c2", "e"), Archivo("f2", "g", "ana@x.org"),
                  Archivo("f3", "k", "ana@x.org")>>)
    @@ ("c2" :> <<Archivo("f1", "f", "ana@x.org")>>)

\* two entries of one folder with the same name
Arbol5 ==
    (FOLDER_ID :> <<Archivo("f1", "a.txt", "ana@x.org"),
                    Archivo("f2", "a.txt", "luis@x.org")>>)

\* an empty root
Arbol6 == (FOLDER_ID :> <<>>)

Arboles == {Arbol1, Arbol2, Arbol3, Arbol4, Arbol5, Arbol6}

-----------------------------------------------------------------------------
(* obtener_archivos_recursivamente: the per-item computations *)

Tipo(item) == IF item.mimeType = MIME_CARPETA THEN "Carpeta" ELSE "Archivo"

Propietario(item) ==
    IF "owners" \in DOMAIN item /\ item.owners # <<>>
    THEN item.owners[1].emailAddress
    ELSE "Desconocido"

FechaSubida(item) == Get(item, "createdTime", "No disponible")

\* datetime.strptime(fecha, "%Y-%m-%dT%H:%M:%S.%fZ") accepts fecha
FormatoValido(fecha) == fecha = CREADO_1

\* strftime("%d/%m/%Y %H:%M:%S") of the parsed date, the raw string on failure
FechaFormateada(fecha) ==
    IF FormatoValido(fecha) THEN "02/01/2024 03:04:05" ELSE fecha

Registro(ruta_actual, item) ==
    <<ruta_actual, item.name, Tipo(item), Propietario(item),
      FechaFormateada(FechaSubida(item))>>

\* mutant: the new path is built from the root label, not from the current path
NuevaRuta_sinPadre(ruta_actual, item) == RUTA_RAIZ \o "/" \o item.name

NuevaRuta(ruta_actual, item) == ruta_actual \o "/" \o item.name

\* the walk when every container is listed in one successful page
RECURSIVE WalkCompleto(_, _, _)
RECURSIVE WalkItems(_, _, _)
WalkItems(a, items, ruta_actual) ==
    IF items = <<>> THEN <<>>
    ELSE LET item == Head(items) IN
         <<Registro(ruta_actual, item)>>
         \o (IF Tipo(item) = "Carpeta"
             THEN WalkCompleto(a, item.id, NuevaRuta(ruta_actual, item))
             ELSE <<>>)
         \o WalkItems(a, Tail(items), ruta_actual)

WalkCompleto(a, parent_id, ruta_actual) == WalkItems(a, a[parent_id], ruta_actual)

-----------------------------------------------------------------------------
(* Snapshot dictionaries: insertion-ordered sequences of <<key, row>> *)

Clave(row) == row[1] \o "_" \o row[2]

Claves(d) == {d[n][1] : n \in 1..Len(d)}

\* d[key] = row
DictSet(d, key, row) ==
    IF key \in Claves(d)
    THEN [n \in 1..Len(d) |-> IF d[n][1] = key THEN <<key, row>> ELSE d[n]]
    ELSE Append(d, <<key, row>>)

\* for row in rows: d[row[0] + "_" + row[1]] = row
RECURSIVE DictDeFilas(_, _)
DictDeFilas(d, rows) ==
    IF rows = <<>> THEN d
    ELSE DictDeFilas(DictSet(d, Clave(Head(rows)), Head(rows)), Tail(rows))

\* mutant: the header row is not skipped
obtener_snapshot_conEncabezado(data) ==
    IF Len(data) < 2 THEN <<>>
    ELSE DictDeFilas(<<>>, data)

obtener_snapshot(data) ==
    IF Len(data) < 2 THEN <<>>
    ELSE DictDeFilas(<<>>, Tail(data))

\* [row for key, row in a.items() if key not in b]
RECURSIVE FilasAusentes(_, _)
FilasAusentes(a, b) ==
    IF a = <<>> THEN <<>>
    ELSE (IF Head(a)[1] \notin Claves(b) THEN <<Head(a)[2]>> ELSE <<>>)
         \o FilasAusentes(Tail(a), b)

\* mutant: rows are compared instead of keys
comparar_snapshot_porFilas(actual, nuevo) ==
    <<SelectSeq([n \in 1..Len(nuevo) |-> nuevo[n][2]],
                LAMBDA row : \A m \in 1..Len(actual) : actual[m][2] # row),
      SelectSeq([n \in 1..Len(actual) |-> actual[n][2]],
                LAMBDA row : \A m \in 1..Len(nuevo) : nuevo[m][2] # row)>>

comparar_snapshot(actual, nuevo) ==
    <<FilasAusentes(nuevo, actual), FilasAusentes(actual, nuevo)>>

\* mutant: only additions count as changes
HayCambios_soloNuevos(nuevos, elim) == nuevos # <<>>

HayCambios(nuevos, elim) == nuevos # <<>> \/ elim # <<>>

-----------------------------------------------------------------------------
(* The listing service: files().list(q, fields, pageToken).execute() *)

Min(a, b) == IF a < b THEN a ELSE b

Inicio(page_token) == IF page_token = None THEN 0 ELSE page_token[1]

\* the pages the service may answer with: up to MaxPage of the children that
\* follow the token; a token accompanies every page that leaves children
\* undelivered, and may accompany the one that delivers the last child
Respuestas(hijos, page_token) ==
    LET inicio == Inicio(page_token)
        resto == Len(hijos) - inicio
    IN  {[files |-> SubSeq(hijos, inicio + 1, inicio + k),
          nextPageToken |-> <<inicio + k>>] : k \in 0..Min(MaxPage, resto)}
        \cup {[files |-> SubSeq(hijos, inicio + 1, inicio + k)] :
                  k \in {x \in 0..MaxPage : x = resto}}

-----------------------------------------------------------------------------
(* Initial state *)

\* the Snapshot worksheet an earlier execution may have left behind
HojasPrevias ==
    {[existe |-> FALSE, filas |-> <<>>]}
    \cup {[existe |-> TRUE, filas |-> f] :
            f \in {<<>>, <<ENCABEZADO>>}
                  \cup {<<ENCABEZADO>> \o WalkCompleto(a, FOLDER_ID, RUTA_RAIZ) :
                            a \in Arboles}}

Init ==
    /\ arbol \in Arboles
    /\ entregados = [c \in DOMAIN arbol |-> <<>>]
    /\ hoja_snapshot \in HojasPrevias
    /\ hojas_cambios = <<>>
    /\ log = <<>>
    /\ pc = "servicios"
    /\ excepcion = ""
    /\ pila = <<>>
    /\ datos_actuales = <<>>
    /\ snapshot_actual = <<>>
    /\ snapshot_nuevo = <<>>
    /\ nuevos_archivos = <<>>
    /\ eliminados = <<>>
    /\ i_reg = 0

-----------------------------------------------------------------------------
(* obtener_archivos_recursivamente, one frame per call *)

NuevoMarco(parent_id, ruta_actual) ==
    [parent_id |-> parent_id, ruta_actual |-> ruta_actual,
     archivos_lista |-> <<>>, page_token |-> None,
     resultados |-> [files |-> <<>>], i |-> 1, pc |-> "list"]

Tope == pila[Len(pila)]

ConTope(marco) == [pila EXCEPT ![Len(pila)] = marco]

\* mutant: the records collected so far are dropped when a listing raises
TrasFalloDeListado_descarta(marco) ==
    [marco EXCEPT !.pc = "ret", !.archivos_lista = <<>>]

\* except Exception: logging.error(...); break
TrasFalloDeListado(marco) == [marco EXCEPT !.pc = "ret"]

\* mutant: the continuation token is never read
SiguientePageToken_ninguno(resultados) == None

\* page_token = resultados.get("nextPageToken", None)
SiguientePageToken(resultados) == Get(resultados, "nextPageToken", None)

\* mutant: the loop has no exit on a missing token
TrasPagina_sinSalida(marco) ==
    [marco EXCEPT !.page_token = Get(marco.resultados, "nextPageToken", None),
                  !.pc = "list"]

\* if not page_token: break
TrasPagina(marco) ==
    LET token == SiguientePageToken(marco.resultados) IN
    [marco EXCEPT !.page_token = token,
                  !.pc = IF token = None THEN "ret" ELSE "list"]

\* archivos_lista.extend(<result of the recursive call>)
TrasLlamada(marco, resultado) ==
    [marco EXCEPT !.archivos_lista = @ \o resultado]

UNCH_main ==
    UNCHANGED <<arbol, hoja_snapshot, hojas_cambios, excepcion, snapshot_actual,
                snapshot_nuevo, nuevos_archivos, eliminados, i_reg>>

listar_pagina ==
    /\ pc = "walk"
    /\ Tope.pc = "list"
    /\ \/ \E r \in Respuestas(arbol[Tope.parent_id], Tope.page_token) :
            /\ pila' = ConTope([Tope EXCEPT !.resultados = r, !.i = 1, !.pc = "for"])
            /\ entregados' = IF r.files = <<>> THEN entregados
                              ELSE [entregados EXCEPT ![Tope.parent_id] =
                                       Append(@, Len(r.files))]
            /\ log' = log
       \/ /\ pila' = ConTope(TrasFalloDeListado(Tope))
          /\ log' = Append(log, <<"ERROR", "Error al listar archivos en la carpeta",
                                  Tope.parent_id>>)
          /\ entregados' = entregados
    /\ UNCHANGED <<pc, datos_actuales>>
    /\ UNCH_main

procesar_item ==
    /\ pc = "walk"
    /\ Tope.pc = "for"
    /\ Tope.i <= Len(Tope.resultados.files)
    /\ LET item == Tope.resultados.files[Tope.i]
           marco == [Tope EXCEPT
                        !.archivos_lista = Append(@, Registro(Tope.ruta_actual, item)),
                        !.i = @ + 1]
       IN  /\ pila' = IF Tipo(item) = "Carpeta"
                      THEN Append(ConTope(marco),
                                  NuevoMarco(item.id, NuevaRuta(Tope.ruta_actual, item)))
                      ELSE ConTope(marco)
           /\ log' = IF FormatoValido(FechaSubida(item)) THEN log
                     ELSE Append(log, <<"WARNING", "No se pudo formatear la fecha",
                                        FechaSubida(item)>>)
    /\ UNCHANGED <<pc, datos_actuales, entregados>>
    /\ UNCH_main

fin_pagina ==
    /\ pc = "walk"
    /\ Tope.pc = "for"
    /\ Tope.i > Len(Tope.resultados.files)
    /\ pila' = ConTope(TrasPagina(Tope))
    /\ UNCHANGED <<pc, datos_actuales, entregados, log>>
    /\ UNCH_main

retornar ==
    /\ pc = "walk"
    /\ Tope.pc = "ret"
    /\ \/ /\ Len(pila) > 1
          /\ pila' = [n \in 1..(Len(pila) - 1) |->
                         IF n = Len(pila) - 1
                         THEN TrasLlamada(pila[n], Tope.archivos_lista)
                         ELSE pila[n]]
          /\ UNCHANGED <<pc, datos_actuales, log>>
       \/ /\ Len(pila) = 1
          /\ pila' = <<>>
          /\ datos_actuales' = Tope.archivos_lista
          /\ log' = Append(log, <<"INFO", "Se encontraron registros",
                                  Len(Tope.archivos_lista)>>)
          /\ pc' = "abrir"
    /\ UNCHANGED entregados
    /\ UNCH_main

-----------------------------------------------------------------------------
(* The spreadsheet service: what a successful call does to a worksheet *)

AppendRow(filas, row) == Append(filas, row)

AppendRows(filas, rows) == filas \o rows

Clear(filas) == <<>>

\* an exception nobody catches ends main() with a traceback naming the call
Aborta(llamada) ==
    /\ pc' = "abortado"
    /\ excepcion' = llamada

UNCH_walk == UNCHANGED <<arbol, entregados, pila, datos_actuales>>

UNCH_dicts == UNCHANGED <<snapshot_actual, snapshot_nuevo, nuevos_archivos, eliminados>>

-----------------------------------------------------------------------------
(* main() *)

obtener_servicios ==
    /\ pc = "servicios"
    /\ \/ /\ pc' = "walk"
          /\ pila' = <<NuevoMarco(FOLDER_ID, RUTA_RAIZ)>>
          /\ log' = Append(log, <<"INFO", "Obteniendo archivos de forma recursiva",
                                  FOLDER_ID>>)
       \/ /\ pc' = "fin"
          /\ pila' = pila
          /\ log' = log \o <<<<"ERROR", "Error al obtener servicios", "">>,
                             <<"ERROR", "No se pudieron obtener los servicios", "">>>>
    /\ UNCHANGED <<arbol, entregados, datos_actuales, hoja_snapshot, hojas_cambios,
                   excepcion, i_reg>>
    /\ UNCH_dicts

abrir_spreadsheet ==
    /\ pc = "abrir"
    /\ \/ /\ pc' = "buscar"
          /\ log' = log
       \/ /\ pc' = "fin"
          /\ log' = Append(log, <<"ERROR", "Error al abrir el spreadsheet", "">>)
    /\ UNCHANGED <<hoja_snapshot, hojas_cambios, excepcion, i_reg>>
    /\ UNCH_walk /\ UNCH_dicts

\* spreadsheet.worksheet("Snapshot"): the sheet, or an exception (the sheet is
\* missing, or the request failed), and any exception selects the first-run branch
buscar_snapshot ==
    /\ pc = "buscar"
    /\ \/ /\ hoja_snapshot.existe
          /\ pc' = "leer"
       \/ pc' = "crear"
    /\ UNCHANGED <<hoja_snapshot, hojas_cambios, excepcion, i_reg, log>>
    /\ UNCH_walk /\ UNCH_dicts

\* add_worksheet(title="Snapshot"): refused when the title is taken
crear_snapshot ==
    /\ pc = "crear"
    /\ \/ /\ ~hoja_snapshot.existe
          /\ hoja_snapshot' = [existe |-> TRUE, filas |-> <<>>]
          /\ pc' = "primera_encabezado"
          /\ excepcion' = excepcion
       \/ /\ Aborta("add_worksheet Snapshot")
          /\ hoja_snapshot' = hoja_snapshot
    /\ UNCHANGED <<hojas_cambios, i_reg, log>>
    /\ UNCH_walk /\ UNCH_dicts

primera_encabezado ==
    /\ pc = "primera_encabezado"
    /\ \/ /\ hoja_snapshot' = [hoja_snapshot EXCEPT !.filas = AppendRow(@, ENCABEZADO)]
          /\ pc' = "primera_datos"
          /\ excepcion' = excepcion
       \/ /\ Aborta("append_row Snapshot")
          /\ hoja_snapshot' = hoja_snapshot
    /\ UNCHANGED <<hojas_cambios, i_reg, log>>
    /\ UNCH_walk /\ UNCH_dicts

primera_datos ==
    /\ pc = "primera_datos"
    /\ \/ /\ hoja_snapshot' = [hoja_snapshot EXCEPT
                                  !.filas = AppendRows(@, datos_actuales)]
          /\ log' = Append(log, <<"INFO", "Se ha creado la hoja 'Snapshot'", "">>)
          /\ pc' = "fin"
          /\ excepcion' = excepcion
       \/ /\ Aborta("append_rows Snapshot")
          /\ hoja_snapshot' = hoja_snapshot
          /\ log' = log
    /\ UNCHANGED <<hojas_cambios, i_reg>>
    /\ UNCH_walk /\ UNCH_dicts

\* snapshot_actual = obtener_snapshot(snapshot_sheet)
leer_snapshot ==
    /\ pc = "leer"
    /\ \/ /\ snapshot_actual' = obtener_snapshot(hoja_snapshot.filas)
          /\ pc' = "convertir"
          /\ excepcion' = excepcion
       \/ /\ Aborta("get_all_values Snapshot")
          /\ snapshot_actual' = snapshot_actual
    /\ UNCHANGED <<hoja_snapshot, hojas_cambios, i_reg, log, snapshot_nuevo,
                   nuevos_archivos, eliminados>>
    /\ UNCH_walk

\* snapshot_nuevo = {row[0] + "_" + row[1]: row for row in datos_actuales}
convertir_datos ==
    /\ pc = "convertir"
    /\ snapshot_nuevo' = DictDeFilas(<<>>, datos_actuales)
    /\ pc' = "comparar"
    /\ UNCHANGED <<hoja_snapshot, hojas_cambios, excepcion, i_reg, log,
                   snapshot_actual, nuevos_archivos, eliminados>>
    /\ UNCH_walk

comparar ==
    /\ pc = "comparar"
    /\ LET r == comparar_snapshot(snapshot_actual, snapshot_nuevo) IN
          /\ nuevos_archivos' = r[1]
          /\ eliminados' = r[2]
          /\ log' = Append(log, <<"INFO", "Detectados nuevos y eliminados",
                                  <<Len(r[1]), Len(r[2])>>>>)
    /\ pc' = "decidir"
    /\ UNCHANGED <<hoja_snapshot, hojas_cambios, excepcion, i_reg,
                   snapshot_actual, snapshot_nuevo>>
    /\ UNCH_walk

\* if nuevos_archivos or eliminados: registrar_cambios(...) else: logging.info(...)
decidir ==
    /\ pc = "decidir"
    /\ \/ /\ HayCambios(nuevos_archivos, eliminados)
          /\ pc' = "registrar_crear"
          /\ log' = log
       \/ /\ ~HayCambios(nuevos_archivos, eliminados)
          /\ pc' = "actualizar_clear"
          /\ log' = Append(log, <<"INFO", "No se detectaron cambios", "">>)
    /\ UNCHANGED <<hoja_snapshot, hojas_cambios, excepcion, i_reg>>
    /\ UNCH_walk /\ UNCH_dicts

-----------------------------------------------------------------------------
(* registrar_cambios *)

EnUltimaHoja(row) ==
    [hojas_cambios EXCEPT ![Len(hojas_cambios)] = AppendRow(@, row)]

\* add_worksheet(title="Cambios <now>"): an exception is logged and the
\* function returns without writing
registrar_crear ==
    /\ pc = "registrar_crear"
    /\ \/ /\ hojas_cambios' = Append(hojas_cambios, <<>>)
          /\ pc' = "registrar_encabezado"
          /\ log' = log
       \/ /\ hojas_cambios' = hojas_cambios
          /\ pc' = "actualizar_clear"
          /\ log' = Append(log, <<"ERROR", "Error al crear la hoja de cambios", "">>)
    /\ UNCHANGED <<hoja_snapshot, excepcion, i_reg>>
    /\ UNCH_walk /\ UNCH_dicts

registrar_encabezado ==
    /\ pc = "registrar_encabezado"
    /\ \/ /\ hojas_cambios' = EnUltimaHoja(ENCABEZADO_CAMBIOS)
          /\ i_reg' = 1
          /\ pc' = "registrar_nuevos"
          /\ excepcion' = excepcion
       \/ /\ Aborta("append_row Cambios")
          /\ UNCHANGED <<hojas_cambios, i_reg>>
    /\ UNCHANGED <<hoja_snapshot, log>>
    /\ UNCH_walk /\ UNCH_dicts

registrar_nuevos ==
    /\ pc = "registrar_nuevos"
    /\ \/ /\ i_reg <= Len(nuevos_archivos)
          /\ \/ /\ hojas_cambios' = EnUltimaHoja(<<"Nuevo">> \o nuevos_archivos[i_reg])
                /\ i_reg' = i_reg + 1
                /\ UNCHANGED <<pc, excepcion>>
             \/ /\ Aborta("append_row Cambios")
                /\ UNCHANGED <<hojas_cambios, i_reg>>
       \/ /\ i_reg > Len(nuevos_archivos)
          /\ i_reg' = 1
          /\ pc' = "registrar_eliminados"
          /\ UNCHANGED <<hojas_cambios, excepcion>>
    /\ UNCHANGED <<hoja_snapshot, log>>
    /\ UNCH_walk /\ UNCH_dicts

registrar_eliminados ==
    /\ pc = "registrar_eliminados"
    /\ \/ /\ i_reg <= Len(eliminados)
          /\ \/ /\ hojas_cambios' = EnUltimaHoja(<<"Eliminado">> \o eliminados[i_reg])
                /\ i_reg' = i_reg + 1
                /\ UNCHANGED <<pc, excepcion>>
             \/ /\ Aborta("append_row Cambios")
                /\ UNCHANGED <<hojas_cambios, i_reg>>
          /\ log' = log
       \/ /\ i_reg > Len(eliminados)
          /\ log' = Append(log, <<"INFO", "Se han registrado cambios en la hoja", "">>)
          /\ pc' = "actualizar_clear"
          /\ UNCHANGED <<hojas_cambios, excepcion, i_reg>>
    /\ UNCHANGED hoja_snapshot
    /\ UNCH_walk /\ UNCH_dicts

-----------------------------------------------------------------------------
(* actualizar_snapshot *)

actualizar_clear ==
    /\ pc = "actualizar_clear"
    /\ \/ /\ hoja_snapshot' = [hoja_snapshot EXCEPT !.filas = Clear(@)]
          /\ pc' = "actualizar_encabezado"
          /\ excepcion' = excepcion
       \/ /\ Aborta("clear Snapshot")
          /\ hoja_snapshot' = hoja_snapshot
    /\ UNCHANGED <<hojas_cambios, i_reg, log>>
    /\ UNCH_walk /\ UNCH_dicts

actualizar_encabezado ==
    /\ pc = "actualizar_encabezado"
    /\ \/ /\ hoja_snapshot' = [hoja_snapshot EXCEPT !.filas = AppendRow(@, ENCABEZADO)]
          /\ pc' = "actualizar_datos"
          /\ excepcion' = excepcion
       \/ /\ Aborta("append_row Snapshot")
          /\ hoja_snapshot' = hoja_snapshot
    /\ UNCHANGED <<hojas_cambios, i_reg, log>>
    /\ UNCH_walk /\ UNCH_dicts

actualizar_datos ==
    /\ pc = "actualizar_datos"
    /\ \/ /\ hoja_snapshot' = [hoja_snapshot EXCEPT
                                  !.filas = AppendRows(@, datos_actuales)]
          /\ log' = Append(log, <<"INFO", "Snapshot actualizado con registros",
                                  Len(datos_actuales)>>)
          /\ pc' = "fin"
          /\ excepcion' = excepcion
       \/ /\ Aborta("append_rows Snapshot")
          /\ hoja_snapshot' = hoja_snapshot
          /\ log' = log
    /\ UNCHANGED <<hojas_cambios, i_reg>>
    /\ UNCH_walk /\ UNCH_dicts

-----------------------------------------------------------------------------
(* Specifications *)

Next ==
    \/ obtener_servicios
    \/ listar_pagina
    \/ procesar_item
    \/ fin_pagina
    \/ retornar
    \/ abrir_spreadsheet
    \/ buscar_snapshot
    \/ crear_snapshot
    \/ primera_encabezado
    \/ primera_datos
    \/ leer_snapshot
    \/ convertir_datos
    \/ comparar
    \/ decidir
    \/ registrar_crear
    \/ registrar_encabezado
    \/ registrar_nuevos
    \/ registrar_eliminados
    \/ actualizar_clear
    \/ actualizar_encabezado
    \/ actualizar_datos

Spec == Init /\ [][Next]_vars

\* one thread of control: the step the program is at is eventually taken
SpecLive == Spec /\ WF_vars(Next)

-----------------------------------------------------------------------------
(* Observations shared by the properties *)

Registrado(mensaje) == \E n \in 1..Len(log) : log[n][2] = mensaje

\* obtener_archivos_recursivamente has returned to main
WalkTerminado == Registrado("Se encontraron registros")

\* comparar_snapshot has returned to main
Comparado == Registrado("Detectados nuevos y eliminados")

\* the containers whose listing raised
FallosDeListado ==
    {log[n][3] : n \in {m \in 1..Len(log) :
                          log[m][2] = "Error al listar archivos en la carpeta"}}

RECURSIVE Suma(_)
Suma(s) == IF s = <<>> THEN 0 ELSE Head(s) + Suma(Tail(s))

Valores(d) == [n \in 1..Len(d) |-> d[n][2]]

ParesDistintos(rows) ==
    \A m, n \in 1..Len(rows) :
        m # n => <<rows[m][1], rows[m][2]>> # <<rows[n][1], rows[n][2]>>

-----------------------------------------------------------------------------
(* C1 *)

Veces(rows, key) == Cardinality({m \in 1..Len(rows) : Clave(rows[m]) = key})

SoloEn(a, b) == {n \in 1..Len(a) : a[n][1] \notin Claves(b)}

\* C1: once comparar_snapshot has returned (added, removed) for (previous,
\* current): a key of current missing from previous has exactly one row in
\* added, the row current stores; a key of previous missing from current has
\* exactly one row in removed, the row previous stores; a key of both has no
\* row in either list, whatever its two rows hold; the lists hold nothing
\* else; an empty previous gives added = all rows of current and removed
\* empty; equal snapshots give two empty lists.
C1_Particion ==
    Comparado =>
        /\ \A n \in SoloEn(snapshot_nuevo, snapshot_actual) :
              /\ Veces(nuevos_archivos, snapshot_nuevo[n][1]) = 1
              /\ \E m \in 1..Len(nuevos_archivos) :
                    nuevos_archivos[m] = snapshot_nuevo[n][2]
        /\ \A n \in SoloEn(snapshot_actual, snapshot_nuevo) :
              /\ Veces(eliminados, snapshot_actual[n][1]) = 1
              /\ \E m \in 1..Len(eliminados) :
                    eliminados[m] = snapshot_actual[n][2]
        /\ \A k \in Claves(snapshot_actual) \cap Claves(snapshot_nuevo) :
              Veces(nuevos_archivos, k) = 0 /\ Veces(eliminados, k) = 0
        /\ Len(nuevos_archivos) = Cardinality(SoloEn(snapshot_nuevo, snapshot_actual))
        /\ Len(eliminados) = Cardinality(SoloEn(snapshot_actual, snapshot_nuevo))
        /\ snapshot_actual = <<>> =>
              nuevos_archivos = Valores(snapshot_nuevo) /\ eliminados = <<>>
        /\ snapshot_actual = snapshot_nuevo =>
              nuevos_archivos = <<>> /\ eliminados = <<>>

\* a diff with an added row, a removed row and a key of both snapshots whose
\* two rows differ
C1_Testigo ==
    /\ Comparado
    /\ nuevos_archivos # <<>>
    /\ eliminados # <<>>
    /\ \E m \in 1..Len(snapshot_actual), n \in 1..Len(snapshot_nuevo) :
          /\ snapshot_actual[m][1] = snapshot_nuevo[n][1]
          /\ snapshot_actual[m][2] # snapshot_nuevo[n][2]

-----------------------------------------------------------------------------
(* C2 *)

\* the entries below a container in depth-first pre-order, each with the
\* position in the whole sequence of its parent folder (0: the root)
RECURSIVE PreOrden(_, _, _, _)
PreOrden(a, items, padre, base) ==
    IF items = <<>> THEN <<>>
    ELSE LET item == Head(items)
             yo == base + 1
             dentro == IF item.mimeType = MIME_CARPETA
                       THEN PreOrden(a, a[item.id], yo, yo)
                       ELSE <<>>
         IN  <<[item |-> item, padre |-> padre]>> \o dentro
             \o PreOrden(a, Tail(items), padre, yo + Len(dentro))

\* C2: when the walk has returned and no listing raised, it holds exactly one
\* record per entry of the tree, in depth-first pre-order; a direct child of
\* the root has the root label as location, every other entry has its parent
\* folder's location + "/" + its parent folder's name.
C2_PreOrden ==
    (WalkTerminado /\ FallosDeListado = {}) =>
        LET orden == PreOrden(arbol, arbol[FOLDER_ID], 0, 0) IN
        /\ Len(datos_actuales) = Len(orden)
        /\ \A n \in 1..Len(orden) :
              /\ datos_actuales[n][2] = orden[n].item.name
              /\ datos_actuales[n][3] =
                    (IF orden[n].item.mimeType = MIME_CARPETA
                     THEN "Carpeta" ELSE "Archivo")
              /\ datos_actuales[n][1] =
                    (IF orden[n].padre = 0 THEN RUTA_RAIZ
                     ELSE datos_actuales[orden[n].padre][1] \o "/"
                          \o datos_actuales[orden[n].padre][2])

\* the fixture of two direct children, a file and a folder holding one file
C2_Testigo ==
    /\ WalkTerminado
    /\ FallosDeListado = {}
    /\ arbol = Arbol1
    /\ [n \in 1..Len(datos_actuales) |-> <<datos_actuales[n][1], datos_actuales[n][2]>>]
         = << <<"Carpeta Principal", "a.txt">>, <<"Carpeta Principal", "sub">>,
              <<"Carpeta Principal/sub", "b.txt">> >>

-----------------------------------------------------------------------------
(* C3 *)

\* C3: when the walk has returned and no listing raised, its result is the
\* result of the walk that receives every container's children in one page,
\* however the service split the children into pages.
C3_Paginacion ==
    (WalkTerminado /\ FallosDeListado = {}) =>
        datos_actuales = WalkCompleto(arbol, FOLDER_ID, RUTA_RAIZ)

\* a finished walk in which some container came in two or more non-empty pages
C3_Testigo ==
    /\ WalkTerminado
    /\ FallosDeListado = {}
    /\ \E c \in DOMAIN arbol : Len(entregados[c]) >= 2
    /\ Len(datos_actuales) >= 3

-----------------------------------------------------------------------------
(* C4 *)

\* what the walk must hold when container c stopped after Suma(entregados[c])
\* children: those children in order, each folder followed by its own part
RECURSIVE Parcial(_, _, _, _)
Parcial(a, e, parent_id, ruta) ==
    LET items == SubSeq(a[parent_id], 1, Suma(e[parent_id]))
        DeItem(item) ==
            <<Registro(ruta, item)>>
            \o (IF item.mimeType = MIME_CARPETA
                THEN Parcial(a, e, item.id, ruta \o "/" \o item.name)
                ELSE <<>>)
        Desde[n \in 1..(Len(items) + 1)] ==
            IF n > Len(items) THEN <<>> ELSE DeItem(items[n]) \o Desde[n + 1]
    IN  Desde[1]

\* C4: a listing that raises does not end the walk with an exception: the walk
\* goes on and returns to main; when it has returned it holds, for every
\* container, the records of the children delivered before its listing raised
\* (all of them if it never raised), each folder followed by the records of
\* its own subtree, up to the same cut, and nothing else.
C4_FalloDeListado ==
    /\ (FallosDeListado # {} /\ ~WalkTerminado) => (pc = "walk" /\ excepcion = "")
    /\ WalkTerminado =>
          datos_actuales = Parcial(arbol, entregados, FOLDER_ID, RUTA_RAIZ)

\* folder d of Arbol4 delivered e (with its file f), then its listing raised;
\* the walk returned with e, f and d's later sibling h, without g and k
C4_Testigo ==
    /\ WalkTerminado
    /\ arbol = Arbol4
    /\ FallosDeListado = {"c1"}
    /\ [n \in 1..Len(datos_actuales) |-> datos_actuales[n][2]] = <<"d", "e", "f", "h">>

-----------------------------------------------------------------------------
(* C5 *)

\* main() is on, or ended on, the branch taken when the Snapshot sheet is missing
PrimeraEjecucion ==
    \/ pc = "crear" /\ ~hoja_snapshot.existe
    \/ pc \in {"primera_encabezado", "primera_datos"}
    \/ pc = "fin" /\ Registrado("Se ha creado la hoja 'Snapshot'")
    \/ /\ pc = "abortado"
       /\ \/ excepcion = "add_worksheet Snapshot" /\ ~hoja_snapshot.existe
          \/ excepcion \in {"append_row Snapshot", "append_rows Snapshot"} /\ ~Comparado

\* C5: on the branch of the missing Snapshot sheet no change-log sheet is
\* created, no diff is computed, main() is not left by an exception, and when
\* main() has ended the sheet exists and holds the header followed by every
\* record of the walk.
C5_PrimeraEjecucion ==
    PrimeraEjecucion =>
        /\ pc # "abortado"
        /\ hojas_cambios = <<>>
        /\ ~Comparado
        /\ pc = "fin" =>
              hoja_snapshot = [existe |-> TRUE,
                               filas |-> <<ENCABEZADO>> \o datos_actuales]

-----------------------------------------------------------------------------
(* C6 *)

ActualizadoPorCompleto ==
    pc = "fin" /\ Registrado("Snapshot actualizado con registros")

\* C6: when actualizar_snapshot has written a non-empty list of records with
\* distinct (location, name) pairs, the sheet is the header followed by the
\* records, and obtener_snapshot of the sheet has the keys of the dict main
\* built from the records and, under every key, the same row.
C6_IdaYVuelta ==
    (ActualizadoPorCompleto /\ datos_actuales # <<>> /\ ParesDistintos(datos_actuales)) =>
        LET leido == obtener_snapshot(hoja_snapshot.filas) IN
        /\ hoja_snapshot.filas = <<ENCABEZADO>> \o datos_actuales
        /\ Claves(leido) = Claves(snapshot_nuevo)
        /\ \A m \in 1..Len(leido), n \in 1..Len(snapshot_nuevo) :
              leido[m][1] = snapshot_nuevo[n][1] => leido[m][2] = snapshot_nuevo[n][2]

\* a sheet that held other rows was rewritten with two or more records
C6_Testigo ==
    /\ ActualizadoPorCompleto
    /\ Len(datos_actuales) >= 2
    /\ ParesDistintos(datos_actuales)
    /\ snapshot_actual # <<>>
    /\ snapshot_actual # snapshot_nuevo

-----------------------------------------------------------------------------
(* C7 *)

EnWalk == pc = "walk"

\* the page being processed came with a continuation token
PaginaConToken ==
    /\ pc = "walk"
    /\ Tope.pc = "for"
    /\ "nextPageToken" \in DOMAIN Tope.resultados

\* C7 as stated: whatever the listing service answers, the walk returns.
C7_Termina == EnWalk ~> ~EnWalk

\* C7 amended: the walk returns unless the listing service goes on answering
\* pages that carry a continuation token for ever.
C7_TerminaSiPaginasFinitas == (<>[]~PaginaConToken) => (EnWalk ~> ~EnWalk)

\* a walk over nested folders that returned after a failed listing and after
\* a container that came in several pages
C7_Testigo ==
    /\ WalkTerminado
    /\ FallosDeListado # {}
    /\ \E c \in DOMAIN arbol : Len(entregados[c]) >= 2

-----------------------------------------------------------------------------
(* C8 *)

\* C8: a failed write of rows does not end the run: main() is never left by
\* the exception of an append_rows call.
C8_FalloDeEscrituraNoAborta ==
    ~(pc = "abortado" /\ excepcion = "append_rows Snapshot")

-----------------------------------------------------------------------------
(* C9 *)

DiffNoVacio == nuevos_archivos # <<>> \/ eliminados # <<>>

\* the newest change-log sheet holds the whole diff of this run
CambiosEscritos ==
    /\ hojas_cambios # <<>>
    /\ hojas_cambios[Len(hojas_cambios)] =
          <<ENCABEZADO_CAMBIOS>>
          \o [n \in 1..Len(nuevos_archivos) |-> <<"Nuevo">> \o nuevos_archivos[n]]
          \o [n \in 1..Len(eliminados) |-> <<"Eliminado">> \o eliminados[n]]

\* actualizar_snapshot has cleared the Snapshot sheet
SnapshotBorrado ==
    \/ pc \in {"actualizar_encabezado", "actualizar_datos"}
    \/ ActualizadoPorCompleto
    \/ /\ pc = "abortado"
       /\ excepcion \in {"append_row Snapshot", "append_rows Snapshot"}
       /\ Comparado

EnRegistrar ==
    pc \in {"registrar_crear", "registrar_encabezado", "registrar_nuevos",
            "registrar_eliminados"}

\* positions of the messages in the log
Posicion(mensaje) == CHOOSE n \in 1..Len(log) : log[n][2] = mensaje

\* C9 as stated: the steps come in the order walk, load, diff, change log,
\* overwrite; once the Snapshot sheet has been cleared, a change-log sheet
\* holding the whole diff exists if the diff is non-empty, and none was
\* created if it is empty.
C9_Orden ==
    /\ (pc \in {"leer", "convertir", "comparar"}) => (WalkTerminado /\ ~Comparado)
    /\ EnRegistrar => (Comparado /\ DiffNoVacio)
    /\ SnapshotBorrado =>
          /\ WalkTerminado /\ Comparado
          /\ DiffNoVacio => CambiosEscritos
          /\ ~DiffNoVacio => hojas_cambios = <<>>

\* C9 amended: the same order; registrar_cambios is entered exactly when the
\* diff is non-empty and has returned before the Snapshot sheet is cleared;
\* it has then written the whole diff to a new sheet, unless creating that
\* sheet raised, in which case the error is logged and no sheet is written.
C9_OrdenConFalloDeHoja ==
    /\ (pc \in {"leer", "convertir", "comparar"}) => (WalkTerminado /\ ~Comparado)
    /\ EnRegistrar => (Comparado /\ DiffNoVacio)
    /\ SnapshotBorrado =>
          /\ WalkTerminado /\ Comparado
          /\ Posicion("Se encontraron registros")
                < Posicion("Detectados nuevos y eliminados")
          /\ DiffNoVacio =>
                \/ /\ CambiosEscritos
                   /\ Registrado("Se han registrado cambios en la hoja")
                   /\ ~Registrado("Error al crear la hoja de cambios")
                \/ /\ hojas_cambios = <<>>
                   /\ Registrado("Error al crear la hoja de cambios")
          /\ ~DiffNoVacio =>
                /\ hojas_cambios = <<>>
                /\ Registrado("No se detectaron cambios")
                /\ ~Registrado("Error al crear la hoja de cambios")

\* the Snapshot sheet was rewritten after a diff with additions and removals
\* was written to its change-log sheet
C9_Testigo ==
    /\ ActualizadoPorCompleto
    /\ nuevos_archivos # <<>>
    /\ eliminados # <<>>
    /\ CambiosEscritos

-----------------------------------------------------------------------------
(* C10 *)

\* C10: records of the walk with different (location, name) pairs have
\* different keys, and each of them is a value of the dict main builds.
C10_ClaveInyectiva ==
    /\ WalkTerminado =>
          \A m, n \in 1..Len(datos_actuales) :
              <<datos_actuales[m][1], datos_actuales[m][2]>>
                  # <<datos_actuales[n][1], datos_actuales[n][2]>>
              => Clave(datos_actuales[m]) # Clave(datos_actuales[n])
    /\ (Comparado /\ ParesDistintos(datos_actuales)) =>
          \A m \in 1..Len(datos_actuales) :
              \E n \in 1..Len(snapshot_nuevo) : snapshot_nuevo[n][2] = datos_actuales[m]

====
